---- MODULE Spec2Model ----
(***************************************************************************)
(* Batch log-analysis pipeline of deepl-log-ai:                            *)
(*   LogService.analyze_and_save_batch  (app/services/log_service.py)      *)
(*   AIService.analyze_log / analyze_custom_prompt (services/ai_service.py)*)
(*   LogRepository.save_batch           (repositories/log_repository.py)   *)
(*   receive_logs, analyze_prompt_with_logs (app/main.py)                  *)
(*   LogRepository.get_batch, save_log, log_exists, get_unanalyzed_logs    *)
(*   import_elk_logs (jobs/elk_import_job.py)                              *)
(*   analyze_logs    (jobs/log_analyzer_job.py)                            *)
(*                                                                         *)
(* Conventions.  An Optional value is a sequence of length <= 1: None is   *)
(* <<>> and the value x is <<x>>.  A dict whose keys vary is a record of   *)
(* Optionals.  Wall-clock timestamps are left out of every document.       *)
(***************************************************************************)
EXTENDS Integers, Sequences, FiniteSets, TLC

VARIABLES
    caller,         \* who invoked the pipeline: an endpoint of main.py or a direct call
    logs,           \* the input list of ElkLog records
    custom_prompt,  \* Optional[str] argument of analyze_and_save_batch
    pc,             \* position inside the request
    idx,            \* 1-based position of the for loop over logs
    analyses,       \* local list `analyses`
    error_logs,     \* local list `error_logs`
    elk_ids,        \* local list `elk_ids`
    batch_id,       \* Optional: value returned by save_batch in this run
    ret,            \* Optional: value returned by analyze_and_save_batch
    escaped,        \* TRUE iff an exception left analyze_and_save_batch
    http_response,  \* body returned by the endpoint (kind "none" until it answers)
    collection,     \* the MongoDB collection: sequence of stored documents
    backend_calls,  \* history: one entry per chat-completion request, with its outcome
    events,         \* history: save / webhook / POST events of this run
    payload,        \* Optional: the webhook payload handed to client.post
    runs,           \* number of the analyze_and_save_batch run in progress
    ticks,          \* history: one entry per tick of the analyzer job
    imports,        \* history: one entry per hit handled by the import job or save_log call
    lookup          \* Optional: the last get_batch call and what it returned

\* The variables only the jobs and the batch lookup write.
job_vars == << runs, ticks, imports, lookup >>

vars == << caller, logs, custom_prompt, pc, idx, analyses, error_logs, elk_ids,
           batch_id, ret, escaped, http_response, collection, backend_calls,
           events, payload, runs, ticks, imports, lookup >>

(***************************************************************************)
(* Bounds of the model.                                                    *)
(***************************************************************************)
MaxLogs == 3

None == <<>>
Some(x) == <<x>>
Range(s) == { s[k] : k \in 1..Len(s) }

\* Python truthiness of an Optional[int] and of an Optional[str].
TruthyInt(opt) == opt # None /\ opt[1] # 0
TruthyStr(opt) == opt # None /\ opt[1] # ""

(***************************************************************************)
(* JSON values found under _source.event.original.                         *)
(*   kind "absent"    the key (or the event dict) is missing               *)
(*   kind "null"      the key holds None                                   *)
(*   kind "badjson"   text json.loads rejects with JSONDecodeError         *)
(*   kind "nonobject" valid JSON that is not an object ("[]", "5", ...)    *)
(*   kind "object"    a JSON object; level_name and level are its members  *)
(* A member is [t, s, n]: t = "missing" | "null" | "str" | "num".          *)
(***************************************************************************)
Missing == [t |-> "missing", s |-> "", n |-> 0]
JNull   == [t |-> "null",    s |-> "", n |-> 0]
JStr(x) == [t |-> "str",     s |-> x,  n |-> 0]
JNum(x) == [t |-> "num",     s |-> "", n |-> x]

Payload(k, ln, lv) == [kind |-> k, level_name |-> ln, level |-> lv]
Absent     == Payload("absent",    Missing, Missing)
NullText   == Payload("null",      Missing, Missing)
BadJson    == Payload("badjson",   Missing, Missing)
NonObject  == Payload("nonobject", Missing, Missing)
Object(ln, lv) == Payload("object", ln, lv)

\* A text is a sequence of tokens; a log message is held character by
\* character so that slicing is computed, a parsed label value is one token.
\* source.message: t = "missing" (no key) | "null" (None) | "str".
Message(kind, chars) == [t |-> kind, chars |-> chars]
Str(chars) == Message("str", chars)

\* ElkLog: source.level_name, source.message, source.event.original, elk_id.
ElkLog(lvl, msg, orig, eid) ==
    [level_name |-> lvl, message |-> msg, original |-> orig, elk_id |-> eid]

(***************************************************************************)
(* Error classification, log_service.py lines 119-137.                     *)
(* JsonLoads gives the outcome of                                          *)
(*   json.loads(log.source.get("event", {}).get("original", "{}")).        *)
(***************************************************************************)
JsonLoads(orig) ==
    CASE orig.kind = "absent"    -> [out |-> "value", object |-> TRUE,
                                     level_name |-> Missing, level |-> Missing]
      [] orig.kind = "badjson"   -> [out |-> "JSONDecodeError", object |-> FALSE,
                                     level_name |-> Missing, level |-> Missing]
      [] orig.kind = "null"      -> [out |-> "TypeError", object |-> FALSE,
                                     level_name |-> Missing, level |-> Missing]
      [] orig.kind = "nonobject" -> [out |-> "value", object |-> FALSE,
                                     level_name |-> Missing, level |-> Missing]
      [] OTHER                   -> [out |-> "value", object |-> TRUE,
                                     level_name |-> orig.level_name,
                                     level |-> orig.level]

\* EventCheck with the threshold compared by > instead of >=.
EventCheckStrict(ev) ==
    IF ~ev.object THEN "raise"
    ELSE IF ev.level_name = JStr("ERROR") THEN "true"
    ELSE CASE ev.level.t = "missing" -> "false"
           [] ev.level.t = "num"     -> IF ev.level.n > 400 THEN "true" ELSE "false"
           [] OTHER                  -> "raise"

\* event_data.get("level_name") == "ERROR" or event_data.get("level", 0) >= 400
\* "true" | "false" | "raise" (AttributeError on a non-dict, TypeError on a
\* level that does not compare with an int).
EventCheck(ev) ==
    IF ~ev.object THEN "raise"
    ELSE IF ev.level_name = JStr("ERROR") THEN "true"
    ELSE CASE ev.level.t = "missing" -> "false"
           [] ev.level.t = "num"     -> IF ev.level.n >= 400 THEN "true" ELSE "false"
           [] OTHER                  -> "raise"

SourceLevelIsError(log) == log.level_name \in {"ERROR", "EMERGENCY"}

\* Classify with `is_error = True` in the JSONDecodeError handler.
ClassifyDecodeErrorIsError(log) ==
    LET ev == JsonLoads(log.original) IN
    CASE ev.out = "JSONDecodeError" -> "error"
      [] ev.out = "TypeError" -> "raise"
      [] OTHER ->
            LET c == EventCheck(ev) IN
            IF c = "raise" THEN "raise"
            ELSE IF SourceLevelIsError(log) \/ c = "true" THEN "error" ELSE "skip"

\* Outcome of one pass through lines 119-137: "error", "skip", or "raise"
\* when an exception other than JSONDecodeError leaves the inner try.
Classify(log) ==
    LET ev == JsonLoads(log.original) IN
    CASE ev.out = "JSONDecodeError" ->
            IF SourceLevelIsError(log) THEN "error" ELSE "skip"
      [] ev.out = "TypeError" -> "raise"
      [] OTHER ->
            LET c == EventCheck(ev) IN
            IF c = "raise" THEN "raise"
            ELSE IF SourceLevelIsError(log) \/ c = "true" THEN "error" ELSE "skip"

(***************************************************************************)
(* Structured response parser, ai_service.py lines 67-131.                 *)
(* A response line, after line.strip(), is [head, val]: head is the prefix *)
(* the startswith chain looks at, val is line.split(":", 1)[1].strip() for *)
(* a labelled line and line.strip("- ") for a bullet line.                 *)
(*   head ""      an empty line                                            *)
(*   head "text"  any line none of the prefixes matches                    *)
(***************************************************************************)
Line(head, val) == [head |-> head, val |-> val]

\* int(text) on the stripped status-code value: None stands for ValueError.
IntOf(text) ==
    CASE text = "200" -> Some(200)
      [] text = "404" -> Some(404)
      [] text = "500" -> Some(500)
      [] text = "503" -> Some(503)
      [] OTHER        -> None

\* str.upper() on the severity values the responses carry.
Upper(text) ==
    CASE text \in {"high", "High", "HIGH"}       -> "HIGH"
      [] text \in {"medium", "Medium", "MEDIUM"} -> "MEDIUM"
      [] text \in {"low", "Low", "LOW"}          -> "LOW"
      [] text \in {"critical", "Critical"}       -> "CRITICAL"
      [] OTHER                                   -> text

\* `needle in current_section`: current_section only ever holds "", "error",
\* "code", "analysis" or "resolution", and a needle is a substring of one of
\* those only when listed here.
Contains(needle, hay) ==
    \/ needle = hay
    \/ needle = ""
    \/ hay = "resolution" /\ needle \in {"res", "solution"}
    \/ hay = "analysis"   /\ needle \in {"anal", "lysis"}

\* State of the scan: error_info / code_info as records of Optionals.
ParserInit ==
    [ current_section  |-> "",
      error_type       |-> None, status_code |-> None, error_message |-> None,
      file_location    |-> None, severity    |-> None, impact        |-> None,
      root_cause       |-> None, problematic_code |-> None,
      suggested_fix    |-> None,
      immediate_actions |-> <<>>, resolution_steps |-> <<>> ]

\* StatusCodeOf with 0 in place of 500 in the ValueError handler.
StatusCodeOfZero(text) == IF IntOf(text) = None THEN 0 ELSE IntOf(text)[1]

StatusCodeOf(text) == IF IntOf(text) = None THEN 500 ELSE IntOf(text)[1]

\* One iteration of the for loop over the lines (lines 77-115).
ParseLine(st, line) ==
    LET h  == line.head
        cs == st.current_section
    IN
    IF h = "" THEN st
    ELSE IF h = "ERROR DETECTION" THEN [st EXCEPT !.current_section = "error"]
    ELSE IF h = "CODE ANALYSIS"   THEN [st EXCEPT !.current_section = "code"]
    ELSE IF h = "ANALYSIS"        THEN [st EXCEPT !.current_section = "analysis"]
    ELSE IF h = "RESOLUTION"      THEN [st EXCEPT !.current_section = "resolution"]
    ELSE IF h = "Type:" /\ cs = "error"
         THEN [st EXCEPT !.error_type = Some(line.val)]
    ELSE IF h = "Status Code:" /\ cs = "error"
         THEN [st EXCEPT !.status_code = Some(StatusCodeOf(line.val))]
    ELSE IF h = "Description:" /\ cs = "error"
         THEN [st EXCEPT !.error_message = Some(<<line.val>>)]
    ELSE IF h = "File Location:" /\ cs = "error"
         THEN [st EXCEPT !.file_location = Some(line.val)]
    ELSE IF h = "Problematic Code:" /\ cs = "code"
         THEN [st EXCEPT !.problematic_code = Some(line.val)]
    ELSE IF h = "Suggested Fix:" /\ cs = "code"
         THEN [st EXCEPT !.suggested_fix = Some(line.val)]
    ELSE IF h = "Severity:" /\ cs = "analysis"
         THEN [st EXCEPT !.severity = Some(Upper(line.val))]
    ELSE IF h = "Impact:" /\ cs = "analysis"
         THEN [st EXCEPT !.impact = Some(line.val)]
    ELSE IF h = "Root Cause:" /\ cs = "analysis"
         THEN [st EXCEPT !.root_cause = Some(line.val)]
    ELSE IF h = "-"
         THEN IF Contains("Immediate Actions", cs)
              THEN [st EXCEPT !.immediate_actions = Append(@, line.val)]
              ELSE IF Contains("Long-term Solutions", cs)
              THEN [st EXCEPT !.resolution_steps = Append(@, line.val)]
              ELSE st
    ELSE st

RECURSIVE ParseLines(_, _)
ParseLines(st, lines) ==
    IF lines = <<>> THEN st
    ELSE ParseLines(ParseLine(st, Head(lines)), Tail(lines))

\* dict.get(key, default)
Get(opt, default) == IF opt = None THEN default ELSE opt[1]

Min(a, b) == IF a <= b THEN a ELSE b

\* log.source.get("message", "")[:150]
MessageLimit == 150
MessageFallback(msg) ==
    IF msg.t = "missing" THEN <<>>
    ELSE SubSeq(msg.chars, 1, Min(MessageLimit, Len(msg.chars)))

\* AnalysisOf with "LOW" as the severity of a reply that names none.
AnalysisOfDefaultLow(st, log) ==
    [ error_type       |-> Get(st.error_type, "Unknown Error"),
      error_message    |-> Get(st.error_message, MessageFallback(log.message)),
      file_location    |-> Get(st.file_location, "Unknown location"),
      problematic_code |-> st.problematic_code,
      suggested_fix    |-> st.suggested_fix,
      status_code      |-> Get(st.status_code, 500),
      severity         |-> Get(st.severity, "LOW"),
      impact           |-> Get(st.impact, "Unknown impact"),
      root_cause       |-> Get(st.root_cause, "Unknown cause"),
      immediate_actions |-> st.immediate_actions,
      resolution_steps |-> st.resolution_steps,
      needs_immediate_attention |-> (Get(st.severity, "MEDIUM") = "HIGH") ]

\* AnalysisOf with the flag also raised by a severity of "CRITICAL".
AnalysisOfCriticalAttention(st, log) ==
    [ error_type       |-> Get(st.error_type, "Unknown Error"),
      error_message    |-> Get(st.error_message, MessageFallback(log.message)),
      file_location    |-> Get(st.file_location, "Unknown location"),
      problematic_code |-> st.problematic_code,
      suggested_fix    |-> st.suggested_fix,
      status_code      |-> Get(st.status_code, 500),
      severity         |-> Get(st.severity, "MEDIUM"),
      impact           |-> Get(st.impact, "Unknown impact"),
      root_cause       |-> Get(st.root_cause, "Unknown cause"),
      immediate_actions |-> st.immediate_actions,
      resolution_steps |-> st.resolution_steps,
      needs_immediate_attention |->
          (Get(st.severity, "MEDIUM") \in {"HIGH", "CRITICAL"}) ]

\* The dict returned at lines 117-131 (timestamp left out).
AnalysisOf(st, log) ==
    [ error_type       |-> Get(st.error_type, "Unknown Error"),
      error_message    |-> Get(st.error_message, MessageFallback(log.message)),
      file_location    |-> Get(st.file_location, "Unknown location"),
      problematic_code |-> st.problematic_code,
      suggested_fix    |-> st.suggested_fix,
      status_code      |-> Get(st.status_code, 500),
      severity         |-> Get(st.severity, "MEDIUM"),
      impact           |-> Get(st.impact, "Unknown impact"),
      root_cause       |-> Get(st.root_cause, "Unknown cause"),
      immediate_actions |-> st.immediate_actions,
      resolution_steps |-> st.resolution_steps,
      needs_immediate_attention |-> (Get(st.severity, "MEDIUM") = "HIGH") ]

(***************************************************************************)
(* The analysis backend.  A reply is what one chat-completion request      *)
(* gives: kind "raise" (the request fails), kind "null" (message.content   *)
(* is None) or kind "text" with the lines of the content.                  *)
(***************************************************************************)
Reply(kind, lines) == [kind |-> kind, lines |-> lines]
BackendRaises == Reply("raise", <<>>)
NullContent   == Reply("null", <<>>)
Text(lines)   == Reply("text", lines)

\* AIService.analyze_log: [out |-> "ok", value |-> dict] or [out |-> "raise"].
\* The default of error_info.get("error_message", ...) is evaluated on every
\* call, so a None message raises TypeError whatever the reply holds.
Raised == [out |-> "raise", value |-> <<>>]
Ok(v)  == [out |-> "ok", value |-> v]

analyze_log(log, reply) ==
    IF JsonLoads(log.original).out = "TypeError" THEN Raised
    ELSE IF JsonLoads(log.original).out = "value"
            /\ ~JsonLoads(log.original).object THEN Raised
    ELSE IF reply.kind # "text" THEN Raised
    ELSE IF log.message.t = "null" THEN Raised
    ELSE Ok(AnalysisOf(ParseLines(ParserInit, reply.lines), log))

\* AIService._parse_custom_analysis, lines 351-383: the four-key dict.  The
\* custom reply is scanned for its own section names; only the shape of the
\* result matters to the pipeline.
CustomLine(st, line) ==
    LET h == line.head IN
    IF h = "" THEN st
    ELSE IF h = "Analysis"
         THEN [st EXCEPT !.current_section = "analysis"]
    ELSE IF h = "Recommendations"
         THEN [st EXCEPT !.current_section = "recommendations"]
    ELSE IF h = "Code Suggestions"
         THEN [st EXCEPT !.current_section = "code_suggestions"]
    ELSE IF h = "Next Steps"
         THEN [st EXCEPT !.current_section = "next_steps"]
    ELSE IF h = "-"
         THEN CASE st.current_section = "recommendations"
                     -> [st EXCEPT !.recommendations = Append(@, line.val)]
                [] st.current_section = "code_suggestions"
                     -> [st EXCEPT !.code_suggestions = Append(@, line.val)]
                [] st.current_section = "next_steps"
                     -> [st EXCEPT !.next_steps = Append(@, line.val)]
                [] OTHER -> st
    ELSE IF st.current_section = "analysis"
         THEN [st EXCEPT !.analysis = Append(@, line)]
    ELSE st

RECURSIVE CustomLines(_, _)
CustomLines(st, lines) ==
    IF lines = <<>> THEN st
    ELSE CustomLines(CustomLine(st, Head(lines)), Tail(lines))

_parse_custom_analysis(lines) ==
    LET st == CustomLines([current_section |-> "", analysis |-> <<>>,
                           recommendations |-> <<>>, code_suggestions |-> <<>>,
                           next_steps |-> <<>>], lines)
    IN [ analysis |-> st.analysis, recommendations |-> st.recommendations,
         code_suggestions |-> st.code_suggestions, next_steps |-> st.next_steps ]

\* AIService.analyze_custom_prompt, lines 315-349.
analyze_custom_prompt(reply) ==
    IF reply.kind # "text" THEN Raised
    ELSE Ok(_parse_custom_analysis(reply.lines))

\* WithElkId that tags the result with no identifier.
WithElkIdDropped(analysis, eid) ==
    [ k \in DOMAIN analysis \cup {"elk_id"} |->
        IF k = "elk_id" THEN None ELSE analysis[k] ]

\* analysis["elk_id"] = log.elk_id
WithElkId(analysis, eid) ==
    [ k \in DOMAIN analysis \cup {"elk_id"} |->
        IF k = "elk_id" THEN eid ELSE analysis[k] ]

(***************************************************************************)
(* Inputs of the runs explored.                                            *)
(***************************************************************************)
\* Every record shape the classification distinguishes, fed one at a time.
Levels == {"ERROR", "EMERGENCY", "INFO", "WARNING"}
Originals ==
    {Absent, NullText, BadJson, NonObject}
      \cup { Object(ln, lv) :
               ln \in {Missing, JStr("ERROR"), JStr("EMERGENCY")},
               lv \in {Missing, JNull, JStr("500"), JNum(399), JNum(400)} }
ElkIds == {None, Some(7)}
Msg == Str(<<"m">>)
AllRecords ==
    { ElkLog(l, Msg, o, e) : l \in Levels, o \in Originals, e \in ElkIds }

\* The records longer lists are made of: every way the classification can
\* end (error by the source level, error by the event, skip, exception),
\* with and without an elk_id.
Records ==
    { ElkLog("ERROR",     Msg, Absent,    Some(7)),
      ElkLog("EMERGENCY", Msg, BadJson,   None),
      ElkLog("INFO",      Msg, BadJson,   Some(7)),
      ElkLog("INFO",      Msg, Object(Missing, JNum(400)), Some(8)),
      ElkLog("ERROR",     Msg, NonObject, Some(7)) }

RECURSIVE SeqsUpTo(_, _)
SeqsUpTo(S, n) ==
    IF n = 0 THEN { <<>> }
    ELSE LET shorter == SeqsUpTo(S, n - 1)
         IN shorter \cup { Append(q, x) : q \in shorter, x \in S }

\* A reply in the format the record prompt asks for, one with a status code
\* that is no number and a lower-case severity, one with a severity outside
\* HIGH/MEDIUM/LOW.
WellFormedHigh ==
    << Line("ERROR DETECTION", ""), Line("Type:", "Database Connection Error"),
       Line("Status Code:", "503"), Line("Description:", "connection refused"),
       Line("File Location:", "app/db.php"),
       Line("ANALYSIS", ""), Line("Severity:", "HIGH"),
       Line("RESOLUTION", ""), Line("text", "Immediate Actions:"),
       Line("-", "Restart service") >>
LowBadStatus ==
    << Line("ERROR DETECTION", ""), Line("Status Code:", "not-a-number"),
       Line("ANALYSIS", ""), Line("Severity:", "low") >>
CriticalSeverity ==
    << Line("ANALYSIS", ""), Line("Severity:", "Critical") >>
Replies ==
    { BackendRaises, NullContent, Text(WellFormedHigh), Text(LowBadStatus),
      Text(CriticalSeverity) }

Inputs == SeqsUpTo(Records, MaxLogs) \cup { << r >> : r \in AllRecords }

Callers == {"receive_logs", "analyze_prompt_with_logs", "direct"}
Prompts == {None, Some(""), Some("explain")}

\* The collection already holds the batch document of an earlier run.
OldBatch ==
    [ id |-> 1,
      logs |-> << ElkLog("ERROR", Msg, Absent, Some(7)) >>,
      analyses |-> << WithElkId(AnalysisOf(ParserInit,
                         ElkLog("ERROR", Msg, Absent, Some(7))), Some(7)) >>,
      total_errors |-> 1 ]

NoResponse == [kind |-> "none", batch_id |-> None, elk_ids |-> <<>>]

Init ==
    /\ caller \in Callers
    /\ logs \in Inputs
    /\ custom_prompt \in Prompts
    /\ caller = "receive_logs" => custom_prompt = None
    /\ caller = "analyze_prompt_with_logs" => custom_prompt # None
    /\ pc = IF caller = "analyze_prompt_with_logs" THEN "endpoint" ELSE "loop"
    /\ idx = 1
    /\ analyses = <<>>
    /\ error_logs = <<>>
    /\ elk_ids = <<>>
    /\ batch_id = None
    /\ ret = None
    /\ escaped = FALSE
    /\ http_response = NoResponse
    /\ collection = << OldBatch >>
    /\ backend_calls = <<>>
    /\ events = <<>>
    /\ payload = None
    /\ runs = 1
    /\ ticks = <<>>
    /\ imports = <<>>
    /\ lookup = None

(***************************************************************************)
(* analyze_prompt_with_logs, main.py lines 182-195: the endpoint reads     *)
(* log.source.message of every log before it calls the service; source is  *)
(* a dict, so the read raises AttributeError as soon as logs is not empty  *)
(* and the handler answers {"error": ...}.                                 *)
(***************************************************************************)
BuildLogsContext ==
    /\ pc = "endpoint"
    /\ IF logs # <<>>
       THEN /\ http_response' = [NoResponse EXCEPT !.kind = "error"]
            /\ pc' = "responded"
       ELSE /\ pc' = "loop"
            /\ UNCHANGED http_response
    /\ UNCHANGED << caller, logs, custom_prompt, idx, analyses, error_logs,
                    elk_ids, batch_id, ret, escaped, collection,
                    backend_calls, events, payload >>
    /\ UNCHANGED job_vars

(***************************************************************************)
(* One iteration of the for loop of analyze_and_save_batch, lines 113-154. *)
(***************************************************************************)
\* The outer `except Exception` of lines 181-183: log and return None.
ReturnNoneOnException ==
    /\ ret' = None
    /\ escaped' = FALSE
    /\ pc' = "returned"

\* The record is not an error: "Log is not an error, skipping".
SkipLog ==
    /\ pc = "loop"
    /\ idx <= Len(logs)
    /\ Classify(logs[idx]) = "skip"
    /\ idx' = idx + 1
    /\ UNCHANGED << caller, logs, custom_prompt, pc, analyses, error_logs,
                    elk_ids, batch_id, ret, escaped, http_response,
                    collection, backend_calls, events, payload >>
    /\ UNCHANGED job_vars

\* Lines 130-133 raise something other than JSONDecodeError.
ClassifyRaises ==
    /\ pc = "loop"
    /\ idx <= Len(logs)
    /\ Classify(logs[idx]) = "raise"
    /\ ReturnNoneOnException
    /\ UNCHANGED << caller, logs, custom_prompt, idx, analyses, error_logs,
                    elk_ids, batch_id, http_response, collection,
                    backend_calls, events, payload >>
    /\ UNCHANGED job_vars

\* Lines 142-145: which analysis the record gets from the reply.
AnalysisFor(log, prompt, reply) ==
    IF TruthyStr(prompt) THEN analyze_custom_prompt(reply)
    ELSE analyze_log(log, reply)

\* AppendAnalysis with analyses.insert(0, analysis).
PrependAnalysis(list, analysis, log) ==
    << WithElkId(analysis, log.elk_id) >> \o list

\* Lines 147-151 on the local lists.
AppendAnalysis(list, analysis, log) == Append(list, WithElkId(analysis, log.elk_id))
AppendErrorLog(list, log) == Append(list, log)
AppendElkId(list, log) ==
    IF TruthyInt(log.elk_id) THEN Append(list, log.elk_id[1]) ELSE list

\* AnalyzeLog with the exception caught inside the loop: the record is
\* left out and the loop goes on.
AnalyzeLogIsolated ==
    /\ pc = "loop"
    /\ idx <= Len(logs)
    /\ Classify(logs[idx]) = "error"
    /\ \E reply \in Replies :
         LET res == AnalysisFor(logs[idx], custom_prompt, reply) IN
         /\ backend_calls' = Append(backend_calls,
                                    [at |-> idx, reply |-> reply,
                                     custom |-> TruthyStr(custom_prompt),
                                     ok |-> res.out = "ok"])
         /\ IF res.out = "ok"
            THEN /\ analyses' = AppendAnalysis(analyses, res.value, logs[idx])
                 /\ error_logs' = AppendErrorLog(error_logs, logs[idx])
                 /\ elk_ids' = AppendElkId(elk_ids, logs[idx])
            ELSE UNCHANGED << analyses, error_logs, elk_ids >>
         /\ idx' = idx + 1
    /\ UNCHANGED << caller, logs, custom_prompt, pc, ret, escaped, batch_id,
                    http_response, collection, events, payload >>
    /\ UNCHANGED job_vars

\* The record is an error: one backend request, then lines 147-152, or the
\* exception of the request / of the parse reaches line 181.
AnalyzeLogFrom(replies) ==
    /\ pc = "loop"
    /\ idx <= Len(logs)
    /\ Classify(logs[idx]) = "error"
    /\ \E reply \in replies :
         LET res == AnalysisFor(logs[idx], custom_prompt, reply) IN
         /\ backend_calls' = Append(backend_calls,
                                    [at |-> idx, reply |-> reply,
                                     custom |-> TruthyStr(custom_prompt),
                                     ok |-> res.out = "ok"])
         /\ IF res.out = "ok"
            THEN /\ analyses' = AppendAnalysis(analyses, res.value, logs[idx])
                 /\ error_logs' = AppendErrorLog(error_logs, logs[idx])
                 /\ elk_ids' = AppendElkId(elk_ids, logs[idx])
                 /\ idx' = idx + 1
                 /\ UNCHANGED << pc, ret, escaped >>
            ELSE /\ ReturnNoneOnException
                 /\ UNCHANGED << analyses, error_logs, elk_ids, idx >>
    /\ UNCHANGED << caller, logs, custom_prompt, batch_id, http_response,
                    collection, events, payload >>
    /\ UNCHANGED job_vars

AnalyzeLog == AnalyzeLogFrom(Replies)

\* EndLoop without the `if error_logs:` test.
EndLoopAlwaysSaves ==
    /\ pc = "loop"
    /\ idx > Len(logs)
    /\ pc' = "save"
    /\ UNCHANGED << caller, logs, custom_prompt, idx, analyses, error_logs,
                    elk_ids, batch_id, ret, escaped, http_response,
                    collection, backend_calls, events, payload >>
    /\ UNCHANGED job_vars

\* Lines 156-160 and 178-179: the loop is over.
EndLoop ==
    /\ pc = "loop"
    /\ idx > Len(logs)
    /\ IF error_logs # <<>>
       THEN /\ pc' = "save"
            /\ UNCHANGED ret
       ELSE /\ pc' = "returned"
            /\ ret' = None
    /\ UNCHANGED << caller, logs, custom_prompt, idx, analyses, error_logs,
                    elk_ids, batch_id, escaped, http_response, collection,
                    backend_calls, events, payload >>
    /\ UNCHANGED job_vars

(***************************************************************************)
(* LogRepository.save_batch, log_repository.py lines 262-272: one          *)
(* insert_one of the whole document; the store assigns a fresh _id.        *)
(***************************************************************************)
FreshId(coll) == Len(coll) + 1

BatchDoc(id, ls, as) ==
    [ id |-> id, logs |-> ls, analyses |-> as, total_errors |-> Len(ls) ]

InsertOne(coll, doc) == Append(coll, doc)

\* save_batch with the notification sent before the insert.
notify_then_save ==
    /\ pc = "save"
    /\ collection' = InsertOne(collection,
                               BatchDoc(FreshId(collection), error_logs, analyses))
    /\ batch_id' = Some(FreshId(collection))
    /\ events' = events \o << "webhook", "post", "2xx", "save_ok" >>
    /\ ret' = Some(FreshId(collection))
    /\ pc' = "returned"
    /\ UNCHANGED << caller, logs, custom_prompt, idx, analyses, error_logs,
                    elk_ids, escaped, http_response, backend_calls, payload >>
    /\ UNCHANGED job_vars

save_batch ==
    /\ pc = "save"
    /\ collection' = InsertOne(collection,
                               BatchDoc(FreshId(collection), error_logs, analyses))
    /\ batch_id' = Some(FreshId(collection))
    /\ events' = Append(events, "save_ok")
    /\ pc' = "webhook"
    /\ UNCHANGED << caller, logs, custom_prompt, idx, analyses, error_logs,
                    elk_ids, ret, escaped, http_response, backend_calls,
                    payload >>
    /\ UNCHANGED job_vars

\* save_batch_raises with the document written before the exception.
save_batch_insert_then_raise ==
    /\ pc = "save"
    /\ collection' = InsertOne(collection,
                               BatchDoc(FreshId(collection), error_logs, analyses))
    /\ events' = Append(events, "save_raise")
    /\ ReturnNoneOnException
    /\ UNCHANGED << caller, logs, custom_prompt, idx, analyses, error_logs,
                    elk_ids, batch_id, http_response, backend_calls, payload >>
    /\ UNCHANGED job_vars

\* insert_one raises (the store is unreachable, the document is rejected):
\* nothing is stored, and line 181 returns None.
save_batch_raises ==
    /\ pc = "save"
    /\ events' = Append(events, "save_raise")
    /\ ReturnNoneOnException
    /\ UNCHANGED << caller, logs, custom_prompt, idx, analyses, error_logs,
                    elk_ids, batch_id, http_response, collection,
                    backend_calls, payload >>
    /\ UNCHANGED job_vars

(***************************************************************************)
(* LogService.send_webhook_notification, lines 57-102, and its call at     *)
(* lines 165-176.                                                          *)
(***************************************************************************)
\* Count with the comparison negated.
CountOthers(as, sev) == Cardinality({ k \in 1..Len(as) : as[k].severity # sev })

Count(as, sev) == Cardinality({ k \in 1..Len(as) : as[k].severity = sev })

\* Lines 61-84 read a["severity"] of every analysis first: KeyError when an
\* analysis has no such key.
PayloadKeysPresent(as) ==
    \A k \in 1..Len(as) :
        {"severity", "file_location", "error_type", "error_message",
         "elk_id", "needs_immediate_attention"} \subseteq DOMAIN as[k]

CriticalFile(a) ==
    [ file |-> a.file_location, error_type |-> a.error_type,
      error_message |-> a.error_message, elk_id |-> a.elk_id ]

WebhookPayload(as, total, bid, eids) ==
    [ batch_id |-> bid, elk_ids |-> eids, total_errors |-> total,
      analyses |-> as,
      high_severity   |-> Count(as, "HIGH"),
      medium_severity |-> Count(as, "MEDIUM"),
      low_severity    |-> Count(as, "LOW"),
      critical_files  |->
          LET crit == SelectSeq(as, LAMBDA a : a.needs_immediate_attention)
          IN [ k \in 1..Len(crit) |-> CriticalFile(crit[k]) ] ]

PostOutcomes == {"2xx", "non2xx", "network_error", "timeout"}

\* What line 176 returns once the webhook step is over.
ReturnAfterWebhook(bid) == bid

\* The payload cannot be built: no POST; the KeyError is re-raised at line
\* 102 and swallowed at line 173.
send_webhook_payload_error ==
    /\ pc = "webhook"
    /\ ~PayloadKeysPresent(analyses)
    /\ events' = events \o << "webhook", "payload_error" >>
    /\ ret' = ReturnAfterWebhook(batch_id)
    /\ pc' = "returned"
    /\ UNCHANGED << caller, logs, custom_prompt, idx, analyses, error_logs,
                    elk_ids, batch_id, escaped, http_response, collection,
                    backend_calls, payload >>
    /\ UNCHANGED job_vars

\* send_webhook_notification without the try/except of lines 171-174: a
\* failed delivery reaches line 181 and None is returned.
send_webhook_failure_aborts ==
    /\ pc = "webhook"
    /\ PayloadKeysPresent(analyses)
    /\ \E outcome \in PostOutcomes :
         /\ events' = events \o << "webhook", "post", outcome >>
         /\ ret' = IF outcome = "2xx" THEN batch_id ELSE None
    /\ payload' = Some(WebhookPayload(analyses, Len(error_logs), batch_id[1],
                                      elk_ids))
    /\ pc' = "returned"
    /\ UNCHANGED << caller, logs, custom_prompt, idx, analyses, error_logs,
                    elk_ids, batch_id, escaped, http_response, collection,
                    backend_calls >>
    /\ UNCHANGED job_vars

\* send_webhook_notification with one retry of a failed delivery.
send_webhook_with_retry ==
    /\ pc = "webhook"
    /\ PayloadKeysPresent(analyses)
    /\ \E outcome \in PostOutcomes :
         events' = IF outcome = "2xx"
                   THEN events \o << "webhook", "post", outcome >>
                   ELSE events \o << "webhook", "post", outcome,
                                     "webhook", "post", "2xx" >>
    /\ payload' = Some(WebhookPayload(analyses, Len(error_logs), batch_id[1],
                                      elk_ids))
    /\ ret' = ReturnAfterWebhook(batch_id)
    /\ pc' = "returned"
    /\ UNCHANGED << caller, logs, custom_prompt, idx, analyses, error_logs,
                    elk_ids, batch_id, escaped, http_response, collection,
                    backend_calls >>
    /\ UNCHANGED job_vars

\* One client.post of the payload; whatever it gives (2xx, a status that
\* raise_for_status rejects, a network error, a timeout) line 176 runs next.
send_webhook_notification ==
    /\ pc = "webhook"
    /\ PayloadKeysPresent(analyses)
    /\ \E outcome \in PostOutcomes :
         events' = events \o << "webhook", "post", outcome >>
    /\ payload' = Some(WebhookPayload(analyses, Len(error_logs), batch_id[1],
                                      elk_ids))
    /\ ret' = ReturnAfterWebhook(batch_id)
    /\ pc' = "returned"
    /\ UNCHANGED << caller, logs, custom_prompt, idx, analyses, error_logs,
                    elk_ids, batch_id, escaped, http_response, collection,
                    backend_calls >>
    /\ UNCHANGED job_vars

(***************************************************************************)
(* receive_logs / analyze_prompt_with_logs after the service returned,     *)
(* main.py lines 88-94 and 200-206.                                        *)
(***************************************************************************)
TruthyElkIds(ls) ==
    LET kept == SelectSeq(ls, LAMBDA l : TruthyInt(l.elk_id))
    IN [ k \in 1..Len(kept) |-> kept[k].elk_id[1] ]

EndpointResponse(r, ls) ==
    IF r # None
    THEN [kind |-> "complete", batch_id |-> r, elk_ids |-> TruthyElkIds(ls)]
    ELSE [NoResponse EXCEPT !.kind = "no_errors"]

Respond ==
    /\ pc = "returned"
    /\ caller # "direct"
    /\ http_response' = IF escaped THEN [NoResponse EXCEPT !.kind = "error"]
                        ELSE EndpointResponse(ret, logs)
    /\ pc' = "responded"
    /\ UNCHANGED << caller, logs, custom_prompt, idx, analyses, error_logs,
                    elk_ids, batch_id, ret, escaped, collection,
                    backend_calls, events, payload >>
    /\ UNCHANGED job_vars

Next ==
    \/ BuildLogsContext
    \/ SkipLog
    \/ ClassifyRaises
    \/ AnalyzeLog
    \/ EndLoop
    \/ save_batch
    \/ save_batch_raises
    \/ send_webhook_payload_error
    \/ send_webhook_notification
    \/ Respond

Spec == Init /\ [][Next]_vars

(***************************************************************************)
(* The response parser on its own: AIService.analyze_log applied once to   *)
(* one flagged record, over every response of up to MaxLines lines drawn   *)
(* from ParserLines and every shape of the record's message.               *)
(***************************************************************************)
MaxLines == 3

\* Section headers, labelled lines with values inside and outside what the
\* prompt asks for, the two sub-headings of RESOLUTION, a bullet, a blank.
ParserLines ==
    { Line("ERROR DETECTION", ""), Line("ANALYSIS", ""), Line("RESOLUTION", ""),
      Line("Status Code:", "404"), Line("Status Code:", "not-a-number"),
      Line("Description:", "connection refused"),
      Line("Severity:", "HIGH"), Line("Severity:", "low"),
      Line("Severity:", "Critical"), Line("Severity:", ""),
      Line("text", "Immediate Actions:"), Line("text", "Long-term Solutions:"),
      Line("-", "Restart service"), Line("", "") }

\* The full format of the record prompt, and a severity in brackets.
WellFormedAll ==
    << Line("ERROR DETECTION", ""), Line("Type:", "Database Connection Error"),
       Line("Status Code:", "503"), Line("Description:", "connection refused"),
       Line("File Location:", "app/db.php"),
       Line("CODE ANALYSIS", ""), Line("Problematic Code:", "connect()"),
       Line("Suggested Fix:", "retry"),
       Line("ANALYSIS", ""), Line("Severity:", "HIGH"),
       Line("Impact:", "outage"), Line("Root Cause:", "pool exhausted"),
       Line("RESOLUTION", ""), Line("text", "Immediate Actions:"),
       Line("-", "Restart service"), Line("-", "Clear pool"),
       Line("text", "Long-term Solutions:"), Line("-", "Add pooling") >>
BracketSeverity ==
    << Line("ANALYSIS", ""), Line("Severity:", "[HIGH]") >>

ParserReplies ==
    { Text(q) : q \in SeqsUpTo(ParserLines, MaxLines) }
      \cup { Text(WellFormedAll), Text(BracketSeverity) } \cup Replies

\* A message of n characters, the one past the slice limit told apart.
Chars(n) == [i \in 1..n |-> IF i <= MessageLimit THEN "x" ELSE "y"]
ParserMessages ==
    { Message("missing", <<>>), Message("null", <<>>), Str(<<>>), Msg,
      Str(Chars(MessageLimit)), Str(Chars(MessageLimit + 1)) }
ParserRecords == { ElkLog("ERROR", m, Absent, Some(7)) : m \in ParserMessages }

InitParser ==
    /\ caller = "direct"
    /\ logs \in { << r >> : r \in ParserRecords }
    /\ custom_prompt = None
    /\ pc = "loop"
    /\ idx = 1
    /\ analyses = <<>>
    /\ error_logs = <<>>
    /\ elk_ids = <<>>
    /\ batch_id = None
    /\ ret = None
    /\ escaped = FALSE
    /\ http_response = NoResponse
    /\ collection = << OldBatch >>
    /\ backend_calls = <<>>
    /\ events = <<>>
    /\ payload = None
    /\ runs = 1
    /\ ticks = <<>>
    /\ imports = <<>>
    /\ lookup = None

ParseReply == AnalyzeLogFrom(ParserReplies)

NextParser == ParseReply

ParserSpec == InitParser /\ [][NextParser]_vars

(***************************************************************************)
(* The shared collection.  main.py and both jobs open the collection       *)
(* "logs" of "logs_db": batch documents and log documents live side by     *)
(* side.  A stored _id is a number here; an identifier text is what the    *)
(* caller of get_batch holds: str(ObjectId) of some _id, or text that      *)
(* ObjectId() rejects.                                                     *)
(***************************************************************************)
MaxRuns == 2
MaxTicks == 2
MaxImports == 2

IdText(n) == [valid |-> TRUE, n |-> n]
Malformed == [valid |-> FALSE, n |-> 0]

\* A log document: an Elasticsearch hit, with the fields update_log sets.
LogDoc(id, ts, log, analyzed) ==
    [ id |-> id, ts |-> ts, source |-> log, analyzed |-> analyzed,
      ai_response |-> None ]

IsLog(d) == "source" \in DOMAIN d

\* AnalysisBatch(**doc) validates: logs, analyses and total_errors are there.
IsBatch(d) == {"logs", "analyses", "total_errors"} \subseteq DOMAIN d

\* LogRepository.get_batch, lines 274-284: None for an identifier ObjectId()
\* rejects, for no document, and for a document AnalysisBatch rejects.
NotFound == [found |-> FALSE, logs |-> <<>>, analyses |-> <<>>, total_errors |-> 0]
\* Found that gives back the first record and the first analysis only.
FoundFirstOnly(d) ==
    [ found |-> TRUE, logs |-> SubSeq(d.logs, 1, 1),
      analyses |-> SubSeq(d.analyses, 1, 1), total_errors |-> d.total_errors ]

Found(d) ==
    [ found |-> TRUE, logs |-> d.logs, analyses |-> d.analyses,
      total_errors |-> d.total_errors ]

get_batch(coll, bid) ==
    IF ~bid.valid THEN NotFound
    ELSE LET hits == { k \in 1..Len(coll) : coll[k].id = bid.n } IN
         IF hits = {} THEN NotFound
         ELSE LET doc == coll[CHOOSE k \in hits : TRUE] IN
              IF IsBatch(doc) THEN Found(doc) ELSE NotFound

\* LogRepository.log_exists, lines 32-37.
log_exists(coll, ts, message) ==
    \E k \in 1..Len(coll) :
        IsLog(coll[k]) /\ coll[k].ts = ts /\ coll[k].source.message = message

\* ElkLog.source is declared `dict` (log_model.py line 49): log.source.timestamp
\* and log.source.message are attribute reads on a dict.
SourceHasAttributes == FALSE

\* A hit of ElkService.get_recent_logs: its @timestamp and its record.
Hit(ts, log) == [ts |-> ts, log |-> log]

\* LogRepository.save_log, lines 39-50: the filter is built from
\* log.source.timestamp and log.source.message before update_one is called.
save_log(coll, hit) ==
    IF ~SourceHasAttributes
    THEN [out |-> "AttributeError", coll |-> coll, id |-> None]
    ELSE IF log_exists(coll, hit.ts, hit.log.message)
    THEN [out |-> "returned", coll |-> coll, id |-> None]
    ELSE [out |-> "returned",
          coll |-> Append(coll, LogDoc(FreshId(coll), hit.ts, hit.log, None)),
          id |-> Some(FreshId(coll))]

\* One iteration of import_elk_logs, elk_import_job.py lines 30-41: the
\* arguments of log_exists are evaluated first; any exception is printed
\* and the loop goes on.
ImportOne(coll, hit) ==
    IF ~SourceHasAttributes THEN [out |-> "AttributeError", coll |-> coll]
    ELSE IF log_exists(coll, hit.ts, hit.log.message)
    THEN [out |-> "exists", coll |-> coll]
    ELSE [out |-> IF save_log(coll, hit).out = "returned"
                  THEN "saved" ELSE save_log(coll, hit).out,
          coll |-> save_log(coll, hit).coll]

RECURSIVE ImportAll(_, _, _)
ImportAll(coll, hits, done) ==
    IF hits = <<>> THEN [coll |-> coll, done |-> done]
    ELSE LET r == ImportOne(coll, Head(hits)) IN
         ImportAll(r.coll, Tail(hits),
                   Append(done, [by |-> "import", ts |-> Head(hits).ts,
                                 message |-> Head(hits).log.message,
                                 out |-> r.out]))

\* LogRepository.get_unanalyzed_logs, lines 52-54: find({"analyzed": True}).
get_unanalyzed_logs(coll) ==
    SelectSeq(coll, LAMBDA d : IsLog(d) /\ d.analyzed = Some(TRUE))

\* {"$set": {"analyzed": True, "ai_response": ai_response}} on one document.
SetAnalyzed(d, ai_response) ==
    [ k \in DOMAIN d \cup {"analyzed", "ai_response"} |->
        CASE k = "analyzed"    -> Some(TRUE)
          [] k = "ai_response" -> Some(ai_response)
          [] OTHER             -> d[k] ]

\* update_log with the _id filter left out: every document is updated.
update_every_log(coll, id, ai_response) ==
    [ k \in 1..Len(coll) |-> SetAnalyzed(coll[k], ai_response) ]

\* LogService.mark_log_as_analyzed / LogRepository.update_log, lines 56-60.
update_log(coll, id, ai_response) ==
    [ k \in 1..Len(coll) |->
        IF coll[k].id = id THEN SetAnalyzed(coll[k], ai_response) ELSE coll[k] ]

\* The loop of analyze_logs, log_analyzer_job.py lines 30-45: one backend
\* request per log of the query; a result is written back, an exception
\* (of the request, or of log.level at line 39) is printed.
RECURSIVE TickLoop(_, _, _)
TickLoop(coll, selected, replies) ==
    IF selected = <<>> THEN coll
    ELSE LET res == analyze_log(Head(selected).source, Head(replies)) IN
         TickLoop(IF res.out = "ok"
                  THEN update_log(coll, Head(selected).id, res.value)
                  ELSE coll,
                  Tail(selected), Tail(replies))

(***************************************************************************)
(* Several operations on the shared collection: analyze_and_save_batch     *)
(* called directly with the record prompt and called again with the same   *)
(* list, import_elk_logs, save_log and the ticks of analyze_logs, in any   *)
(* order.                                                                  *)
(***************************************************************************)
\* The collection at the start: a batch of an earlier run, a log document
\* marked analyzed and one that is not.
StoredLog == ElkLog("ERROR", Msg, Absent, None)
StoreInit ==
    << OldBatch,
       LogDoc(2, 1, StoredLog, Some(TRUE)),
       LogDoc(3, 2, StoredLog, None) >>

\* Requests: no record, one error, error + skipped + error, an exception.
StoreInputs ==
    { <<>>,
      << ElkLog("ERROR", Msg, Absent, Some(7)) >>,
      << ElkLog("ERROR", Msg, Absent, Some(7)),
         ElkLog("INFO", Msg, BadJson, Some(7)),
         ElkLog("INFO", Msg, Object(Missing, JNum(400)), Some(8)) >>,
      << ElkLog("ERROR", Msg, NonObject, Some(7)) >> }

StoreReplies == { BackendRaises, Text(WellFormedHigh) }

\* What ELK returns to one import run: a pair already stored, a new pair,
\* the same new pair twice.
Hits == { Hit(1, StoredLog), Hit(5, StoredLog) }
HitLists == { << h >> : h \in Hits } \cup { << Hit(5, StoredLog), Hit(5, StoredLog) >> }

LookupIds(coll) == {Malformed} \cup { IdText(n) : n \in 1..(Len(coll) + 1) }

InitStore ==
    /\ caller = "direct"
    /\ logs \in StoreInputs
    /\ custom_prompt = None
    /\ pc = "loop"
    /\ idx = 1
    /\ analyses = <<>>
    /\ error_logs = <<>>
    /\ elk_ids = <<>>
    /\ batch_id = None
    /\ ret = None
    /\ escaped = FALSE
    /\ http_response = NoResponse
    /\ collection = StoreInit
    /\ backend_calls = <<>>
    /\ events = <<>>
    /\ payload = None
    /\ runs = 1
    /\ ticks = <<>>
    /\ imports = <<>>
    /\ lookup = None

AnalyzeStoreLog == AnalyzeLogFrom(StoreReplies)

\* The same call is made again after the previous run has ended: the
\* locals of analyze_and_save_batch start afresh, the collection stays.
RunAgain ==
    /\ pc = "returned"
    /\ runs < MaxRuns
    /\ runs' = runs + 1
    /\ pc' = "loop"
    /\ idx' = 1
    /\ analyses' = <<>>
    /\ error_logs' = <<>>
    /\ elk_ids' = <<>>
    /\ batch_id' = None
    /\ ret' = None
    /\ escaped' = FALSE
    /\ http_response' = NoResponse
    /\ backend_calls' = <<>>
    /\ events' = <<>>
    /\ payload' = None
    /\ UNCHANGED << caller, logs, custom_prompt, collection, ticks, imports,
                    lookup >>

\* LogService.get_batch_analysis(batch_id), log_service.py lines 53-55.
GetBatch ==
    /\ \E bid \in LookupIds(collection) :
         lookup' = Some([id |-> bid, result |-> get_batch(collection, bid)])
    /\ UNCHANGED << caller, logs, custom_prompt, pc, idx, analyses, error_logs,
                    elk_ids, batch_id, ret, escaped, http_response, collection,
                    backend_calls, events, payload, runs, ticks, imports >>

\* One run of import_elk_logs over the hits ELK returned.
import_elk_logs ==
    /\ Len(imports) < MaxImports
    /\ \E hits \in HitLists :
         LET r == ImportAll(collection, hits, <<>>) IN
         /\ collection' = r.coll
         /\ imports' = imports \o r.done
    /\ UNCHANGED << caller, logs, custom_prompt, pc, idx, analyses, error_logs,
                    elk_ids, batch_id, ret, escaped, http_response,
                    backend_calls, events, payload, runs, ticks, lookup >>

\* LogService.save_log(log), log_service.py lines 20-21.
SaveLogCall ==
    /\ Len(imports) < MaxImports
    /\ \E hit \in Hits :
         LET r == save_log(collection, hit) IN
         /\ collection' = r.coll
         /\ imports' = Append(imports,
                              [by |-> "save_log", ts |-> hit.ts,
                               message |-> hit.log.message, out |-> r.out])
    /\ UNCHANGED << caller, logs, custom_prompt, pc, idx, analyses, error_logs,
                    elk_ids, batch_id, ret, escaped, http_response,
                    backend_calls, events, payload, runs, ticks, lookup >>

\* One tick of analyze_logs: the query of line 28, then the loop.  A tick
\* records the logs not marked analyzed when it queried and the logs it
\* sent to the backend.
Unmarked(coll) ==
    { coll[k].id : k \in { j \in 1..Len(coll) :
                             IsLog(coll[j]) /\ coll[j].analyzed # Some(TRUE) } }

analyze_logs ==
    /\ Len(ticks) < MaxTicks
    /\ LET selected == get_unanalyzed_logs(collection) IN
       \E replies \in [1..Len(selected) -> StoreReplies] :
         /\ collection' = TickLoop(collection, selected, replies)
         /\ ticks' = Append(ticks,
                            [ unmarked |-> Unmarked(collection),
                              sent |-> [k \in 1..Len(selected) |-> selected[k].id] ])
    /\ UNCHANGED << caller, logs, custom_prompt, pc, idx, analyses, error_logs,
                    elk_ids, batch_id, ret, escaped, http_response,
                    backend_calls, events, payload, runs, imports, lookup >>

StoreNext ==
    \/ SkipLog
    \/ ClassifyRaises
    \/ AnalyzeStoreLog
    \/ EndLoop
    \/ save_batch
    \/ save_batch_raises
    \/ send_webhook_notification
    \/ RunAgain
    \/ import_elk_logs
    \/ SaveLogCall
    \/ analyze_logs

StoreSpec == InitStore /\ [][StoreNext]_vars

(***************************************************************************)
(* One run of analyze_and_save_batch with get_batch called at any moment   *)
(* before, during and after it.                                            *)
(***************************************************************************)
LookupNext ==
    \/ SkipLog
    \/ ClassifyRaises
    \/ AnalyzeStoreLog
    \/ EndLoop
    \/ save_batch
    \/ save_batch_raises
    \/ send_webhook_notification
    \/ GetBatch

LookupSpec == InitStore /\ [][LookupNext]_vars

(***************************************************************************)
(* Vocabulary of the properties.                                           *)
(***************************************************************************)
\* is_error as the design states it: the source level is ERROR or EMERGENCY,
\* or the original event is an object whose level_name is "ERROR" or whose
\* level is a number >= 400.
is_error(log) ==
    \/ log.level_name \in {"ERROR", "EMERGENCY"}
    \/ /\ log.original.kind = "object"
       /\ \/ log.original.level_name = JStr("ERROR")
          \/ log.original.level.t = "num" /\ log.original.level.n >= 400

\* analyze_and_save_batch was entered and has returned.
ContextFailed == http_response.kind = "error"
Finished == pc \in {"returned", "responded"} /\ ~ContextFailed

\* The loop is done with the k-th record: it went past it, or it stopped on it.
Handled(k) == idx > k \/ (idx = k /\ Finished)

Occurrences(seq, x) == Cardinality({ k \in 1..Len(seq) : seq[k] = x })
Saved == Occurrences(events, "save_ok") > 0
Before(seq, x, k) == \E j \in 1..(k - 1) : seq[j] = x

\* The k-th backend request ended in an exception (of the request itself or
\* of the parse of its reply).
CallFailed(k) == ~backend_calls[k].ok
SomeCallFailed == \E k \in 1..Len(backend_calls) : CallFailed(k)

\* The positions of the records of `ls` that satisfy is_error, in order.
ErrorPositions(ls) ==
    SelectSeq([k \in 1..Len(ls) |-> k], LAMBDA k : is_error(ls[k]))

\* The document stored by this run.
StoredBatch == CHOOSE d \in Range(collection) : d.id = batch_id[1]

WebhookFailed ==
    \/ Occurrences(events, "payload_error") > 0
    \/ \E o \in PostOutcomes \ {"2xx"} : Occurrences(events, o) > 0

(***************************************************************************)
(* C1.  A batch that is persisted holds exactly the input records that     *)
(* satisfy is_error, in input order, and its i-th analysis is the result   *)
(* produced for the i-th of them from the reply given for that record,     *)
(* tagged with that record's elk_id.                                       *)
(***************************************************************************)
C1_BatchOrder ==
    batch_id # None =>
        LET pos == ErrorPositions(logs)
            d   == StoredBatch
        IN /\ Len(d.logs) = Len(pos)
           /\ Len(d.analyses) = Len(pos)
           /\ Len(backend_calls) = Len(pos)
           /\ \A i \in 1..Len(pos) :
                /\ d.logs[i] = logs[pos[i]]
                /\ backend_calls[i].at = pos[i]
                /\ d.analyses[i] =
                     WithElkId(AnalysisFor(logs[pos[i]], custom_prompt,
                                           backend_calls[i].reply).value,
                               logs[pos[i]].elk_id)

\* [A(error), B(ok), C(error)] was persisted as two different results.
C1_Witness ==
    /\ batch_id # None
    /\ Len(logs) = 3
    /\ is_error(logs[1]) /\ ~is_error(logs[2]) /\ is_error(logs[3])
    /\ Len(StoredBatch.analyses) = 2
    /\ StoredBatch.analyses[1] # StoredBatch.analyses[2]

(***************************************************************************)
(* C2.  When no input record satisfies is_error (the empty list included), *)
(* the run returns None, the store receives no insert, the backend is      *)
(* never called and no webhook is attempted.                               *)
(***************************************************************************)
NoErrorInput == \A k \in 1..Len(logs) : ~is_error(logs[k])

C2_NoErrorsNoBatch ==
    NoErrorInput =>
        /\ ret = None
        /\ batch_id = None
        /\ ~escaped
        /\ collection = << OldBatch >>
        /\ backend_calls = <<>>
        /\ events = <<>>
        /\ payload = None
        /\ pc \notin {"save", "webhook"}

C2_Witness ==
    /\ NoErrorInput
    /\ Len(logs) >= 2
    /\ Finished
    /\ idx > Len(logs)

(***************************************************************************)
(* C3.  When save_batch succeeded and the webhook step then failed (the    *)
(* payload could not be built, network error, timeout, non-2xx status),    *)
(* the run returns the identifier save_batch returned, no exception leaves *)
(* it, and the batch is stored once: not removed, not saved again.         *)
(***************************************************************************)
C3_WebhookIsolation ==
    (Saved /\ WebhookFailed) =>
        /\ Finished
        /\ ~escaped
        /\ batch_id # None
        /\ ret = batch_id
        /\ Occurrences(events, "save_ok") = 1
        /\ collection = << OldBatch, BatchDoc(batch_id[1], error_logs, analyses) >>

C3_Witness ==
    /\ Saved
    /\ Occurrences(events, "timeout") > 0
    /\ Finished
    /\ ret # None

(***************************************************************************)
(* C4.  As claimed: a backend-call or parse failure on one flagged record  *)
(* leaves the rest of the batch alone: the other flagged records are still *)
(* analyzed and the batch of the remaining pairs is persisted and its      *)
(* identifier returned.  (Stated for inputs whose classification raises    *)
(* nothing.)                                                               *)
(***************************************************************************)
ClassifiesCleanly == \A k \in 1..Len(logs) : Classify(logs[k]) # "raise"

C4_FailureIsolated ==
    (Finished /\ SomeCallFailed /\ ClassifiesCleanly) =>
        /\ \A k \in 1..Len(logs) :
              is_error(logs[k]) => \E c \in 1..Len(backend_calls) :
                                       backend_calls[c].at = k
        /\ (\E c \in 1..Len(backend_calls) : ~CallFailed(c)) =>
              (ret # None /\ batch_id # None)

(***************************************************************************)
(* C4, amended.  A backend-call or parse failure on a flagged record ends  *)
(* the run at that record: the failed request is the last one made, no     *)
(* later record is handled, save_batch is not called, no webhook is        *)
(* attempted, nothing is stored and the run returns None without raising.  *)
(***************************************************************************)
C4_FailureAborts ==
    SomeCallFailed =>
        LET n == Len(backend_calls) IN
        /\ CallFailed(n)
        /\ \A k \in 1..(n - 1) : ~CallFailed(k)
        /\ idx = backend_calls[n].at
        /\ Finished
        /\ ret = None
        /\ batch_id = None
        /\ ~escaped
        /\ events = <<>>
        /\ payload = None
        /\ collection = << OldBatch >>

\* A record was analyzed, the next request failed, a flagged record is left.
C4_Witness ==
    /\ SomeCallFailed
    /\ Len(backend_calls) = 2
    /\ Len(analyses) = 1
    /\ idx < Len(logs)
    /\ is_error(logs[Len(logs)])
    /\ ClassifiesCleanly

(***************************************************************************)
(* C5.  When save_batch fails no identifier is returned and the caller of  *)
(* /receive-logs is told that the operation failed: the answer is an error *)
(* answer, not the "No errors to analyze" answer of a run without errors.  *)
(***************************************************************************)
SaveFailed == Occurrences(events, "save_raise") > 0

C5_SaveFailureReported ==
    (SaveFailed /\ Finished) =>
        /\ ret = None
        /\ pc = "responded" => http_response.kind = "error"

(***************************************************************************)
(* C6.  A webhook delivery is attempted only after save_batch returned an  *)
(* identifier in the same run: every webhook call and every POST is        *)
(* preceded by a successful save, and a run whose save failed or was not   *)
(* performed attempts none.                                                *)
(***************************************************************************)
C6_WebhookAfterSave ==
    /\ \A k \in 1..Len(events) :
          events[k] \in {"webhook", "post"} =>
              (Before(events, "save_ok", k) /\ batch_id # None)
    /\ ~Saved => (Occurrences(events, "webhook") = 0
                  /\ Occurrences(events, "post") = 0
                  /\ payload = None)

C6_Witness ==
    /\ Occurrences(events, "post") = 1
    /\ Saved

(***************************************************************************)
(* C7.  For a persisted batch at most one webhook delivery is attempted:   *)
(* one call of send_webhook_notification, at most one POST, whether it     *)
(* succeeds or fails.                                                      *)
(***************************************************************************)
C7_AtMostOneAttempt ==
    /\ Occurrences(events, "webhook") <= 1
    /\ Occurrences(events, "post") <= 1

C7_Witness ==
    /\ Finished
    /\ Occurrences(events, "non2xx") = 1
    /\ Occurrences(events, "webhook") = 1

(***************************************************************************)
(* C8.  Every run in which save_batch succeeds goes on to one HTTP POST of *)
(* the webhook payload, with the record prompt and with a custom prompt.   *)
(***************************************************************************)
C8_SaveThenPost ==
    (Finished /\ Saved) => Occurrences(events, "post") = 1

(***************************************************************************)
(* C9.  Every record whose level is ERROR or EMERGENCY that the loop       *)
(* handles is classified as an error and reaches analysis (a backend       *)
(* request is made for it), whatever its original event payload is.        *)
(***************************************************************************)
C9_LevelAlwaysAnalyzed ==
    \A k \in 1..Len(logs) :
        (Handled(k) /\ logs[k].level_name \in {"ERROR", "EMERGENCY"}) =>
            \E c \in 1..Len(backend_calls) : backend_calls[c].at = k

(***************************************************************************)
(* C10.  A record whose level is neither ERROR nor EMERGENCY and whose     *)
(* original event is absent or is text that is not JSON is skipped: the    *)
(* loop goes past it, no backend request is made for it and no entry of    *)
(* the batch comes from it.                                                *)
(***************************************************************************)
Unparseable(log) == log.original.kind \in {"absent", "badjson"}

EventIsError(o) ==
    \/ o.level_name = JStr("ERROR")
    \/ o.level.t = "num" /\ o.level.n >= 400

Requested(k) == \E c \in 1..Len(backend_calls) : backend_calls[c].at = k

C11_EventThreshold ==
    \A k \in 1..Len(logs) :
        (Handled(k) /\ logs[k].level_name \notin {"ERROR", "EMERGENCY"}
                    /\ logs[k].original.kind = "object") =>
            /\ Requested(k) <=> EventIsError(logs[k].original)
            /\ (~EventIsError(logs[k].original)
                  /\ logs[k].original.level.t \in {"missing", "num"}) => idx > k

\* An INFO record whose event has level 400 and no level_name was analyzed.
C11_Witness ==
    /\ Len(logs) = 1
    /\ logs[1].level_name = "INFO"
    /\ logs[1].original = Object(Missing, JNum(400))
    /\ Len(analyses) = 1
    /\ backend_calls[1].at = 1

(***************************************************************************)
(* C12.  Classification never fails because of the payload: for a handled  *)
(* record whose original event is absent, is text that is not JSON, is     *)
(* JSON that is no object, or is an object whose level is no number, the   *)
(* loop either makes the backend request for the record or goes past it to *)
(* the remaining records; and a payload that is no object counts as        *)
(* absent, so the request is made exactly when the source level is ERROR   *)
(* or EMERGENCY.                                                           *)
(***************************************************************************)
PayloadUnusable(o) ==
    \/ o.kind \in {"absent", "badjson", "nonobject"}
    \/ o.kind = "object" /\ o.level.t \notin {"missing", "num"}

C12_ClassificationNeverFails ==
    \A k \in 1..Len(logs) :
        (Handled(k) /\ PayloadUnusable(logs[k].original)) =>
            /\ Requested(k) \/ idx > k
            /\ logs[k].original.kind # "object" =>
                  (Requested(k) <=> logs[k].level_name \in {"ERROR", "EMERGENCY"})

(***************************************************************************)
(* Vocabulary of the parser properties.                                    *)
(***************************************************************************)
\* analyze_log returned a result for the one record, from a text reply.
Parsed ==
    /\ Len(backend_calls) = 1
    /\ backend_calls[1].ok
    /\ ~backend_calls[1].custom
    /\ Len(analyses) = 1

ResponseLines == backend_calls[1].reply.lines
Result == analyses[1]

(***************************************************************************)
(* C13.  Every bullet line that follows the "Immediate Actions:" line      *)
(* inside RESOLUTION is appended, without its marker and in order, to      *)
(* immediate_actions, and every bullet line that follows the "Long-term    *)
(* Solutions:" line to resolution_steps; a response whose RESOLUTION holds *)
(* "Immediate Actions:" and the bullet "Restart service" gives             *)
(* immediate_actions = ["Restart service"].                                *)
(***************************************************************************)
\* The routing as the design states it: the sub-heading last seen inside
\* RESOLUTION decides where a bullet goes.
RouteLine(st, line) ==
    IF line.head \in {"ERROR DETECTION", "CODE ANALYSIS", "ANALYSIS"}
    THEN [st EXCEPT !.resolution = FALSE, !.sub = ""]
    ELSE IF line.head = "RESOLUTION"
    THEN [st EXCEPT !.resolution = TRUE, !.sub = ""]
    ELSE IF st.resolution /\ line = Line("text", "Immediate Actions:")
    THEN [st EXCEPT !.sub = "immediate"]
    ELSE IF st.resolution /\ line = Line("text", "Long-term Solutions:")
    THEN [st EXCEPT !.sub = "longterm"]
    ELSE IF line.head = "-" /\ st.sub = "immediate"
    THEN [st EXCEPT !.immediate = Append(@, line.val)]
    ELSE IF line.head = "-" /\ st.sub = "longterm"
    THEN [st EXCEPT !.longterm = Append(@, line.val)]
    ELSE st

RECURSIVE Route(_, _)
Route(st, lines) ==
    IF lines = <<>> THEN st
    ELSE Route(RouteLine(st, Head(lines)), Tail(lines))

Routed(lines) ==
    Route([resolution |-> FALSE, sub |-> "", immediate |-> <<>>,
           longterm |-> <<>>], lines)

C13_BulletsRouted ==
    Parsed =>
        /\ Result.immediate_actions = Routed(ResponseLines).immediate
        /\ Result.resolution_steps = Routed(ResponseLines).longterm

(***************************************************************************)
(* C14.  Parsing an empty response gives severity "MEDIUM", status_code    *)
(* 500, empty immediate_actions and resolution_steps and                   *)
(* needs_immediate_attention false.                                        *)
(***************************************************************************)
C14_EmptyResponseDefaults ==
    (Parsed /\ ResponseLines = <<>>) =>
        /\ Result.severity = "MEDIUM"
        /\ Result.status_code = 500
        /\ Result.immediate_actions = <<>>
        /\ Result.resolution_steps = <<>>
        /\ Result.needs_immediate_attention = FALSE

C14_Witness ==
    /\ Parsed
    /\ ResponseLines = <<>>
    /\ logs[1].message = Msg
    /\ Result.error_message = <<"m">>

(***************************************************************************)
(* C15.  A "Status Code:" line whose value is no integer gives status_code *)
(* 500 and no failure; the status_code of every parse result is an         *)
(* integer: one a "Status Code:" line of the response carries, or 500, and *)
(* 500 whenever no line of the response carries an integer status code.    *)
(***************************************************************************)
IntegerStatusLines ==
    { k \in 1..Len(ResponseLines) :
        ResponseLines[k].head = "Status Code:"
          /\ IntOf(ResponseLines[k].val) # None }

C15_StatusCodeFallback ==
    Parsed =>
        /\ Result.status_code \in Int
        /\ Result.status_code \in
              {500} \cup { IntOf(ResponseLines[k].val)[1] : k \in IntegerStatusLines }
        /\ IntegerStatusLines = {} => Result.status_code = 500

\* "Status Code: not-a-number" inside ERROR DETECTION was parsed to 500.
C15_Witness ==
    /\ Parsed
    /\ Len(ResponseLines) >= 2
    /\ ResponseLines[1] = Line("ERROR DETECTION", "")
    /\ ResponseLines[2] = Line("Status Code:", "not-a-number")
    /\ IntegerStatusLines = {}
    /\ Result.status_code = 500

(***************************************************************************)
(* C16.  The severity of every parse result is one of "HIGH", "MEDIUM",    *)
(* "LOW": a value of the response in another case is upper-cased and a     *)
(* value outside the set ("Critical", "[HIGH]", empty) becomes "MEDIUM".   *)
(***************************************************************************)
C16_SeverityInSet ==
    Parsed => Result.severity \in {"HIGH", "MEDIUM", "LOW"}

(***************************************************************************)
(* C17.  needs_immediate_attention of a parse result is true exactly when  *)
(* its severity is "HIGH", whatever lines the response holds.              *)
(***************************************************************************)
C17_AttentionIffHigh ==
    Parsed => (Result.needs_immediate_attention <=> Result.severity = "HIGH")

\* A response of the bounded set gave HIGH and raised the flag.
C17_Witness ==
    /\ Parsed
    /\ Len(ResponseLines) = 2
    /\ ResponseLines[2] = Line("Severity:", "HIGH")
    /\ Result.severity = "HIGH"
    /\ Result.needs_immediate_attention

(***************************************************************************)
(* C18.  When the response holds no Description line, error_message is the *)
(* record's message if that is at most 150 characters long, and otherwise  *)
(* its first 150 characters followed by an ellipsis.                       *)
(***************************************************************************)
NoDescription ==
    \A k \in 1..Len(ResponseLines) : ResponseLines[k].head # "Description:"

Truncated(chars) ==
    IF Len(chars) <= MessageLimit THEN chars
    ELSE SubSeq(chars, 1, MessageLimit) \o << "..." >>

C18_FallbackEllipsis ==
    (Parsed /\ NoDescription /\ logs[1].message.t = "str") =>
        Result.error_message = Truncated(logs[1].message.chars)

(***************************************************************************)
(* C19.  The parser never throws: for every response text and every        *)
(* record, a record without a message or with a null message included,     *)
(* analyze_log returns a result.                                           *)
(***************************************************************************)
C19_ParserNeverThrows ==
    \A c \in 1..Len(backend_calls) :
        backend_calls[c].reply.kind = "text" => backend_calls[c].ok

(***************************************************************************)
(* C20.  In a run that persists a batch the backend is requested exactly   *)
(* once for every record that satisfies is_error and never for another     *)
(* record, the batch holds one result per such record, and the i-th result *)
(* carries the elk_id of the i-th such record.                             *)
(***************************************************************************)
Requests(k) ==
    Cardinality({ c \in 1..Len(backend_calls) : backend_calls[c].at = k })

C20_OneRequestPerError ==
    batch_id # None =>
        LET pos == ErrorPositions(logs)
            d   == StoredBatch
        IN /\ \A k \in 1..Len(logs) :
                Requests(k) = IF is_error(logs[k]) THEN 1 ELSE 0
           /\ Len(d.analyses) = Len(pos)
           /\ \A i \in 1..Len(pos) : d.analyses[i].elk_id = logs[pos[i]].elk_id

\* error, non-error, error with different identifiers, persisted.
C20_Witness ==
    /\ batch_id # None
    /\ Len(logs) = 3
    /\ is_error(logs[1]) /\ ~is_error(logs[2]) /\ is_error(logs[3])
    /\ logs[1].elk_id = Some(7)
    /\ logs[3].elk_id = Some(8)
    /\ StoredBatch.analyses[2].elk_id = Some(8)
    /\ Requests(2) = 0

(***************************************************************************)
(* C21.  With a custom prompt every result stored in the batch is still a  *)
(* result of the structured response parser: it carries severity,          *)
(* status_code, error_type, error_message, file_location,                  *)
(* immediate_actions, resolution_steps and needs_immediate_attention, and  *)
(* its severity is one of "HIGH", "MEDIUM", "LOW".                         *)
(***************************************************************************)
ResultKeys ==
    { "severity", "status_code", "error_type", "error_message",
      "file_location", "immediate_actions", "resolution_steps",
      "needs_immediate_attention" }

C21_CustomPromptSchema ==
    (batch_id # None /\ TruthyStr(custom_prompt)) =>
        \A i \in 1..Len(StoredBatch.analyses) :
            /\ backend_calls[i].custom
            /\ ResultKeys \subseteq DOMAIN StoredBatch.analyses[i]
            /\ StoredBatch.analyses[i].severity \in {"HIGH", "MEDIUM", "LOW"}

(***************************************************************************)
(* C22.  The webhook payload built for a batch is a projection of the      *)
(* stored batch: its batch_id is the identifier save_batch returned, its   *)
(* high, medium and low counts are the numbers of results of the batch     *)
(* with severity HIGH, MEDIUM and LOW, and its critical list holds, in     *)
(* batch order, exactly the results with needs_immediate_attention true.   *)
(***************************************************************************)
WithSeverity(as, sev) == { i \in 1..Len(as) : as[i].severity = sev }

AttentionPositions(as) ==
    SelectSeq([i \in 1..Len(as) |-> i],
              LAMBDA i : as[i].needs_immediate_attention)

C22_PayloadProjection ==
    payload # None =>
        LET p   == payload[1]
            as  == StoredBatch.analyses
            pos == AttentionPositions(as)
        IN /\ batch_id # None
           /\ p.batch_id = batch_id[1]
           /\ p.batch_id = StoredBatch.id
           /\ p.high_severity   = Cardinality(WithSeverity(as, "HIGH"))
           /\ p.medium_severity = Cardinality(WithSeverity(as, "MEDIUM"))
           /\ p.low_severity    = Cardinality(WithSeverity(as, "LOW"))
           /\ Len(p.critical_files) = Len(pos)
           /\ \A k \in 1..Len(pos) :
                /\ p.critical_files[k].file = as[pos[k]].file_location
                /\ p.critical_files[k].error_type = as[pos[k]].error_type
                /\ p.critical_files[k].error_message = as[pos[k]].error_message
                /\ p.critical_files[k].elk_id = as[pos[k]].elk_id

\* A payload over three results: HIGH, LOW, HIGH, the two HIGH ones listed.
C22_Witness ==
    /\ payload # None
    /\ Len(analyses) = 3
    /\ analyses[1].severity = "HIGH"
    /\ analyses[2].severity = "LOW"
    /\ analyses[3].severity = "HIGH"
    /\ analyses[1].elk_id # analyses[3].elk_id
    /\ Len(payload[1].critical_files) = 2
    /\ payload[1].critical_files[2].elk_id = analyses[3].elk_id
    /\ payload[1].low_severity = 1

(***************************************************************************)
(* C26.  analyze_and_save_batch never lets an exception out, and whenever  *)
(* it returns None the store holds exactly the batches it held before the  *)
(* call: a run that fails during classification, the backend request, the  *)
(* parse or the save returns None and inserts nothing.                     *)
(***************************************************************************)
RunFailed == Finished /\ (idx <= Len(logs) \/ SaveFailed)

C26_NoneLeavesStore ==
    /\ ~escaped
    /\ (Finished /\ ret = None) => collection = << OldBatch >>
    /\ RunFailed => (ret = None /\ batch_id = None)

\* Two records were analyzed, then the insert failed.
C26_Witness ==
    /\ Finished
    /\ ret = None
    /\ SaveFailed
    /\ Len(analyses) = 2
    /\ collection = << OldBatch >>

(***************************************************************************)
(* C27.  In every webhook payload the high, medium and low severity counts *)
(* add up to total_errors, the number of results of the batch.             *)
(***************************************************************************)
C27_CountsAddUp ==
    payload # None =>
        /\ payload[1].total_errors = Len(StoredBatch.analyses)
        /\ payload[1].high_severity + payload[1].medium_severity
              + payload[1].low_severity = payload[1].total_errors

(***************************************************************************)
(* C23.  After save_batch returned the identifier b, get_batch(b) gives    *)
(* the whole batch that was saved: the same records and analyses in the    *)
(* same order, total_errors being the number of pairs.  A get_batch that   *)
(* finds something finds a whole batch, and get_batch of an identifier no  *)
(* save returned (that of a log document, one not in the collection, a     *)
(* malformed one) gives not-found.                                         *)
(***************************************************************************)
SavedBatch ==
    [ found |-> TRUE, logs |-> error_logs, analyses |-> analyses,
      total_errors |-> Len(error_logs) ]

NeverSaved(bid) ==
    \/ ~bid.valid
    \/ bid.n > Len(collection)
    \/ \E k \in 1..Len(collection) : collection[k].id = bid.n /\ IsLog(collection[k])

C23_GetBatchRoundTrip ==
    /\ batch_id # None =>
          /\ get_batch(collection, IdText(batch_id[1])) = SavedBatch
          /\ Len(analyses) = Len(error_logs)
    /\ lookup # None =>
          LET bid == lookup[1].id
              r   == lookup[1].result
          IN /\ r.found =>
                  /\ bid.valid
                  /\ \/ bid.n = OldBatch.id /\ r = Found(OldBatch)
                     \/ batch_id # None /\ bid.n = batch_id[1] /\ r = SavedBatch
                  /\ r.total_errors = Len(r.logs)
                  /\ Len(r.analyses) = Len(r.logs)
             /\ NeverSaved(bid) => ~r.found

\* get_batch of the identifier of this run found the batch of two pairs.
C23_Witness ==
    /\ batch_id # None
    /\ lookup # None
    /\ lookup[1].id = IdText(batch_id[1])
    /\ lookup[1].result.found
    /\ Len(lookup[1].result.logs) = 2
    /\ lookup[1].result.logs[2].elk_id = Some(8)
    /\ lookup[1].result.analyses[2].elk_id = Some(8)

(***************************************************************************)
(* C24.  A persisted batch is immutable: no step of a later run, of an     *)
(* import, of save_log or of an analyzer tick changes or removes a batch   *)
(* document of the collection, so get_batch of its identifier keeps giving *)
(* the same content; and every run inserts at most one batch.              *)
(***************************************************************************)
BatchCount == Cardinality({ k \in 1..Len(collection) : IsBatch(collection[k]) })

BatchesKept ==
    \A k \in 1..Len(collection) :
        IsBatch(collection[k]) =>
            /\ k <= Len(collection')
            /\ collection'[k] = collection[k]
            /\ get_batch(collection', IdText(collection[k].id))
                 = get_batch(collection, IdText(collection[k].id))

C24_BatchesImmutable ==
    /\ [](BatchCount <= 1 + runs)
    /\ [][BatchesKept]_vars

\* The first run stored a batch; a tick then wrote to a log document, an
\* import ran, and a second run stored another batch.
C24_Witness ==
    /\ runs = 2
    /\ batch_id # None
    /\ BatchCount = 3
    /\ Len(ticks) >= 1
    /\ collection[2].ai_response # None
    /\ Len(imports) >= 1

(***************************************************************************)
(* C25.  Batch persistence is idempotent: running analyze_and_save_batch   *)
(* again on the same list of records leaves no second stored copy of the   *)
(* same batch (same records, same analyses) in the collection.             *)
(***************************************************************************)
C25_NoSecondCopy ==
    \A j, k \in 1..Len(collection) :
        (j < k /\ IsBatch(collection[j]) /\ IsBatch(collection[k])) =>
            \/ collection[j].logs # collection[k].logs
            \/ collection[j].analyses # collection[k].analyses

(***************************************************************************)
(* C28.  Log import avoids duplicates: every hit an import run handles is  *)
(* looked up with log_exists and, when absent, stored by save_log; a       *)
(* save_log call returns (an identifier, or none for a stored pair); and   *)
(* the collection holds at most one log document per (timestamp, message). *)
(***************************************************************************)
LogsWithPair(ts, message) ==
    { k \in 1..Len(collection) :
        IsLog(collection[k]) /\ collection[k].ts = ts
          /\ collection[k].source.message = message }

C28_ImportDedup ==
    /\ \A k \in 1..Len(imports) :
          /\ imports[k].out \in {"exists", "saved", "returned"}
          /\ Cardinality(LogsWithPair(imports[k].ts, imports[k].message)) <= 1
    /\ \A k \in 1..Len(collection) :
          IsLog(collection[k]) =>
              Cardinality(LogsWithPair(collection[k].ts,
                                       collection[k].source.message)) <= 1

(***************************************************************************)
(* C29.  The analyzer job processes unanalyzed logs only: every tick sends *)
(* to the backend exactly the stored logs not marked analyzed when it      *)
(* queried, and a log that an earlier tick sent is sent again only if it   *)
(* was still unmarked.                                                     *)
(***************************************************************************)
C29_OnlyUnanalyzed ==
    \A t \in 1..Len(ticks) :
        /\ Range(ticks[t].sent) = ticks[t].unmarked
        /\ \A u \in 1..(t - 1) :
              (Range(ticks[u].sent) \cap Range(ticks[t].sent))
                  \subseteq ticks[t].unmarked

====
